---- MODULE Spec2Model ----
(***************************************************************************)
(* A model of the loan application API of src/main.py: the pydantic        *)
(* validators of ApplicationIn, the decision function process_application, *)
(* the JSON file store (load_applications / save_applications) and the two *)
(* request handlers create_application and get_applications.               *)
(*                                                                         *)
(* Amounts are Python floats (IEEE 754 binary64).  A request carries an    *)
(* amount as a decimal literal with two fractional digits, written here as *)
(* an integer number of hundredths; FromCents is the conversion of that    *)
(* literal to the nearest binary64 value and FSub, FDiv, FMul are the      *)
(* correctly rounded (round half to even) binary64 operations.  Mantissas  *)
(* need 53 bits and are kept as sequences of limbs.                        *)
(***************************************************************************)
EXTENDS Integers, Sequences, FiniteSets, TLC

(***************************************************************************)
(* Natural numbers of any size, as sequences of limbs of LimbBits bits     *)
(* (index 1 is the least significant limb, no leading zero limb, <<>> is   *)
(* zero).  A limb product stays below 2^31, the width of a TLC integer.    *)
(***************************************************************************)
LimbBits == 7 * 2

Base == 2 ^ LimbBits

RECURSIVE FromInt(_)
FromInt(n) == IF n = 0 THEN <<>> ELSE <<n % Base>> \o FromInt(n \div Base)

RECURSIVE Trim(_)
Trim(b) ==
    IF b = <<>> THEN <<>>
    ELSE IF b[Len(b)] = 0 THEN Trim(SubSeq(b, 1, Len(b) - 1)) ELSE b

Limb(b, i) == IF i >= 1 /\ i <= Len(b) THEN b[i] ELSE 0

\* The number of bits of a limb v.
Width(v) ==
    CHOOSE w \in 0..LimbBits :
        IF v = 0 THEN w = 0 ELSE w > 0 /\ 2 ^ (w - 1) <= v /\ v < 2 ^ w

BitLen(b) ==
    IF b = <<>> THEN 0 ELSE LimbBits * (Len(b) - 1) + Width(b[Len(b)])

\* Bit p of b; bit 1 is the least significant.
BitAt(b, p) ==
    (Limb(b, ((p - 1) \div LimbBits) + 1) \div 2 ^ ((p - 1) % LimbBits)) % 2

\* b * 2^k.
ShlBits(b, k) ==
    LET q == k \div LimbBits
        r == k % LimbBits
    IN  Trim([i \in 1..(Len(b) + q + 1) |->
                ((Limb(b, i - q) * 2 ^ r) % Base)
                + (Limb(b, i - q - 1) \div 2 ^ (LimbBits - r))])

\* b \div 2^k.
ShrBits(b, k) ==
    LET q == k \div LimbBits
        r == k % LimbBits
        n == IF Len(b) > q THEN Len(b) - q ELSE 0
    IN  Trim([i \in 1..n |->
                (Limb(b, i + q) \div 2 ^ r)
                + ((Limb(b, i + q + 1) % 2 ^ r) * 2 ^ (LimbBits - r))])

\* b % 2^k # 0.
LowBitsNonZero(b, k) ==
    LET q == k \div LimbBits
        r == k % LimbBits
    IN  \/ \E i \in 1..q : Limb(b, i) # 0
        \/ Limb(b, q + 1) % 2 ^ r # 0

\* -1, 0 or 1 as a < b, a = b, a > b.
Cmp(a, b) ==
    IF Len(a) > Len(b) THEN 1
    ELSE IF Len(a) < Len(b) THEN -1
    ELSE LET D == {i \in 1..Len(a) : a[i] # b[i]}
         IN  IF D = {} THEN 0
             ELSE LET i == CHOOSE j \in D : \A l \in D : l <= j
                  IN  IF a[i] > b[i] THEN 1 ELSE -1

RECURSIVE AddFrom(_, _, _, _, _)
AddFrom(a, b, i, carry, acc) ==
    IF i > Len(a) /\ i > Len(b)
    THEN IF carry = 1 THEN Append(acc, 1) ELSE acc
    ELSE LET s == Limb(a, i) + Limb(b, i) + carry
         IN  AddFrom(a, b, i + 1, s \div Base, Append(acc, s % Base))

Add(a, b) == AddFrom(a, b, 1, 0, <<>>)

\* a - b for a >= b.
RECURSIVE SubFrom(_, _, _, _, _)
SubFrom(a, b, i, borrow, acc) ==
    IF i > Len(a) THEN Trim(acc)
    ELSE LET d == Limb(a, i) - Limb(b, i) - borrow
         IN  SubFrom(a, b, i + 1, IF d < 0 THEN 1 ELSE 0,
                     Append(acc, IF d < 0 THEN d + Base ELSE d))

Sub(a, b) == SubFrom(a, b, 1, 0, <<>>)

\* a * v for a limb v.
RECURSIVE MulLimbFrom(_, _, _, _, _)
MulLimbFrom(a, v, i, carry, acc) ==
    IF i > Len(a) THEN Trim(Append(acc, carry))
    ELSE LET p == a[i] * v + carry
         IN  MulLimbFrom(a, v, i + 1, p \div Base, Append(acc, p % Base))

MulLimb(a, v) == MulLimbFrom(a, v, 1, 0, <<>>)

\* a * b, limb by limb of b.
RECURSIVE MulFrom(_, _, _, _)
MulFrom(a, b, i, acc) ==
    IF i > Len(b) THEN acc
    ELSE MulFrom(a, b, i + 1,
                 Add(acc, ShlBits(MulLimb(a, b[i]), LimbBits * (i - 1))))

Mul(a, b) == MulFrom(a, b, 1, <<>>)

\* Long division of a by d # 0, bit by bit from bit i of a downwards:
\* <<quotient, remainder>>.
RECURSIVE DivFrom(_, _, _, _, _)
DivFrom(a, d, i, q, r) ==
    IF i = 0 THEN <<q, r>>
    ELSE LET r2  == Add(ShlBits(r, 1), FromInt(BitAt(a, i)))
             big == Cmp(r2, d) >= 0
             q2  == Add(ShlBits(q, 1), IF big THEN <<1>> ELSE <<>>)
         IN  IF Len(q2) >= 0
             THEN DivFrom(a, d, i - 1, q2, IF big THEN Sub(r2, d) ELSE r2)
             ELSE <<q2, r2>>

\* The top BitLen(d) - 1 bits of a are less than d: the division starts
\* below them.
DivMod(a, d) ==
    LET n == BitLen(a)
        h == IF n < BitLen(d) THEN n ELSE BitLen(d) - 1
    IN  DivFrom(a, d, n - h, <<>>, ShrBits(a, n - h))

\* Division of a by a limb v # 0, limb by limb from limb i of a downwards:
\* <<quotient, remainder>>, the remainder an integer.
RECURSIVE DivLimbFrom(_, _, _, _, _)
DivLimbFrom(a, v, i, q, r) ==
    IF i = 0 THEN <<Trim(q), r>>
    ELSE LET t == r * Base + a[i]
         IN  DivLimbFrom(a, v, i - 1, <<t \div v>> \o q, t % v)

DivLimb(a, v) == DivLimbFrom(a, v, Len(a), <<>>, 0)

\* The number of trailing zero bits of b # 0.
TrailingZeros(b) ==
    CHOOSE z \in 0..BitLen(b) : BitAt(b, z + 1) = 1 /\ ~LowBitsNonZero(b, z)

(***************************************************************************)
(* binary64.  A float is [k, s, m, e]: k is "fin" or "inf"; s is the sign  *)
(* (1 is negative); a finite non-zero value is m * 2^e with m of exactly   *)
(* MantBits bits; zero is m = <<>>, e = 0.  The exponents of the amounts   *)
(* modelled are far from the subnormal and the overflow range, so neither  *)
(* is modelled.                                                            *)
(***************************************************************************)
MantBits == 53

FZero == [k |-> "fin", s |-> 0, m |-> <<>>, e |-> 0]

FInf == [k |-> "inf", s |-> 0, m |-> <<>>, e |-> 0]

\* The binary64 nearest to (n + f) * 2^e, where sticky = 1 says that
\* 0 < f < 1 and sticky = 0 that f = 0 (round half to even).  A caller with
\* sticky = 1 passes n of more than MantBits + 1 bits.
RoundFloat(s, n, e, sticky) ==
    IF n = <<>> THEN FZero
    ELSE IF BitLen(n) <= MantBits
    THEN [k |-> "fin", s |-> s, m |-> ShlBits(n, MantBits - BitLen(n)),
          e |-> e - (MantBits - BitLen(n))]
    ELSE LET d     == BitLen(n) - MantBits
             kept  == ShrBits(n, d)
             guard == BitAt(n, d)
             rest  == sticky = 1 \/ LowBitsNonZero(n, d - 1)
             up    == guard = 1 /\ (rest \/ BitAt(kept, 1) = 1)
             m1    == IF up THEN Add(kept, <<1>>) ELSE kept
         IN  IF BitLen(m1) > MantBits
             THEN [k |-> "fin", s |-> s, m |-> ShrBits(m1, 1),
                   e |-> e + d + 1]
             ELSE [k |-> "fin", s |-> s, m |-> m1, e |-> e + d]

\* The float of a decimal literal with two fractional digits, c hundredths:
\* the binary64 nearest to c / 100.
FromCents(c) ==
    IF c = 0 THEN FZero
    ELSE LET a  == FromInt(IF c < 0 THEN -c ELSE c)
             k  == MantBits + 9
             qr == DivLimb(ShlBits(a, k), 100)
         IN  RoundFloat(IF c < 0 THEN 1 ELSE 0, qr[1], -k,
                        IF qr[2] = 0 THEN 0 ELSE 1)

FNeg(x) == IF x.m = <<>> /\ x.k = "fin" THEN x ELSE [x EXCEPT !.s = 1 - x.s]

FAbs(x) == [x EXCEPT !.s = 0]

\* x > y on floats (no NaN arises in the model).
FGt(x, y) ==
    IF x.k = "inf" THEN x.s = 0 /\ ~(y.k = "inf" /\ y.s = 0)
    ELSE IF y.k = "inf" THEN y.s = 1
    ELSE IF x.m = <<>> THEN y.m # <<>> /\ y.s = 1
    ELSE IF y.m = <<>> THEN x.s = 0
    ELSE IF x.s # y.s THEN x.s = 0
    ELSE LET c == IF x.e > y.e THEN 1
                  ELSE IF x.e < y.e THEN -1
                  ELSE Cmp(x.m, y.m)
         IN  IF x.s = 0 THEN c = 1 ELSE c = -1

\* x + y, correctly rounded, for finite x and y.
FAdd(x, y) ==
    IF x.m = <<>> THEN y
    ELSE IF y.m = <<>> THEN x
    ELSE LET e0 == IF x.e < y.e THEN x.e ELSE y.e
             a  == ShlBits(x.m, x.e - e0)
             b  == ShlBits(y.m, y.e - e0)
         IN  IF x.s = y.s THEN RoundFloat(x.s, Add(a, b), e0, 0)
             ELSE IF Cmp(a, b) >= 0 THEN RoundFloat(x.s, Sub(a, b), e0, 0)
             ELSE RoundFloat(y.s, Sub(b, a), e0, 0)

FSub(x, y) == FAdd(x, FNeg(y))

\* x * y, correctly rounded, for finite x and y.
FMul(x, y) ==
    IF x.m = <<>> \/ y.m = <<>> THEN FZero
    ELSE LET tz == TrailingZeros(y.m)
             b  == ShrBits(y.m, tz)
         IN  RoundFloat(IF x.s = y.s THEN 0 ELSE 1, Mul(x.m, b),
                        x.e + y.e + tz, 0)

\* x / y, correctly rounded, for finite x and finite y # 0.
FDiv(x, y) ==
    IF x.m = <<>> THEN FZero
    ELSE LET k  == MantBits + 3
             qr == DivMod(ShlBits(x.m, k), y.m)
         IN  RoundFloat(IF x.s = y.s THEN 0 ELSE 1, qr[1], x.e - y.e - k,
                        IF qr[2] = <<>> THEN 0 ELSE 1)

(***************************************************************************)
(* ApplicationIn and its validators.  A dateOfBirth string is written as   *)
(* the three numbers of its "Y-M-D" text; None is Python's None.           *)
(***************************************************************************)
None == "None"

MinAge == 18

ToleranceCents == 1

LvrLimit == 150

IsLeap(y) == (y % 4 = 0 /\ y % 100 # 0) \/ y % 400 = 0

DaysInMonth(y, m) ==
    IF m = 2 THEN (IF IsLeap(y) THEN 29 ELSE 28)
    ELSE IF m \in {4, 6, 9, 11} THEN 30 ELSE 31

\* datetime.strptime(dob, "%Y-%m-%d") returns a date.
ParsesAsDate(dob) ==
    /\ dob.y \in 1..9999
    /\ dob.m \in 1..12
    /\ dob.d \in 1..DaysInMonth(dob.y, dob.m)

\* A variant of TupleLess that compares the second components with <=.
TupleLessOrEqual(a1, a2, b1, b2) == a1 < b1 \/ (a1 = b1 /\ a2 <= b2)

\* (a1, a2) < (b1, b2) on Python tuples.
TupleLess(a1, a2, b1, b2) == a1 < b1 \/ (a1 = b1 /\ a2 < b2)

Age(birthdate, today) ==
    today.y - birthdate.y
    - (IF TupleLess(today.m, today.d, birthdate.m, birthdate.d) THEN 1 ELSE 0)

\* "ok" when the validator returns dob; otherwise the ValueError it raises:
\* "InvalidDate" for strptime's, "Underage" for the validator's own.
validate_age(dob, today) ==
    IF ~ParsesAsDate(dob) THEN "InvalidDate"
    ELSE IF Age(dob, today) < MinAge THEN "Underage"
    ELSE "ok"

\* max(0, x): x when x > 0, else 0.
FMax0(x) == IF FGt(x, FZero) THEN x ELSE FZero

\* TRUE when the validator returns v, FALSE when it raises.
validate_loan_amount(v, carValue, depositAmount) ==
    LET expected == FMax0(FSub(FromCents(carValue), FromCents(depositAmount)))
    IN  ~FGt(FAbs(FSub(FromCents(v), expected)), FromCents(ToleranceCents))

\* The validation errors of a request body (none: the model is built).
Validate(in, today) ==
    (IF validate_age(in.dateOfBirth, today) = "ok" THEN {}
     ELSE {validate_age(in.dateOfBirth, today)})
    \cup
    (IF validate_loan_amount(in.loanAmount, in.carValue, in.depositAmount)
     THEN {} ELSE {"LoanAmountMismatch"})

(***************************************************************************)
(* The decision.                                                           *)
(***************************************************************************)
\* A variant of calculate_lvr that divides by any income but zero.
calculate_lvr_nonzero(loan_amount, income) ==
    IF income.m # <<>>
    THEN FMul(FDiv(loan_amount, income), FromCents(100 * 100))
    ELSE FInf

calculate_lvr(loan_amount, income) ==
    IF FGt(income, FZero)
    THEN FMul(FDiv(loan_amount, income), FromCents(100 * 100))
    ELSE FInf

\* A variant of process_application that tests the LVR rule first.
process_application_lvr_first(application) ==
    LET lvr == calculate_lvr(FromCents(application.loanAmount),
                             FromCents(application.income))
    IN  IF FGt(lvr, FromCents(LvrLimit * 100))
        THEN [status |-> "rejected", decisionCode |-> "R_040",
              message |-> "Application declined due to high LVR ratio."]
        ELSE IF application.employmentStatus = "unemployed"
        THEN [status |-> "rejected", decisionCode |-> "D_017",
              message |-> "Application declined due to unemployment status."]
        ELSE [status |-> "approved", decisionCode |-> None,
              message |-> "Application has been approved!"]

process_application(application) ==
    LET lvr == calculate_lvr(FromCents(application.loanAmount),
                             FromCents(application.income))
    IN  IF application.employmentStatus = "unemployed"
        THEN [status |-> "rejected", decisionCode |-> "D_017",
              message |-> "Application declined due to unemployment status."]
        ELSE IF FGt(lvr, FromCents(LvrLimit * 100))
        THEN [status |-> "rejected", decisionCode |-> "R_040",
              message |-> "Application declined due to high LVR ratio."]
        ELSE [status |-> "approved", decisionCode |-> None,
              message |-> "Application has been approved!"]

(***************************************************************************)
(* The record store.  The file applications.json is absent, holds the JSON *)
(* text of a list of records ("json", with the list: json.dump followed by *)
(* json.load gives back the strings, floats and None of a record), or      *)
(* holds text json.load cannot decode ("garbage": open(.., "w") truncates  *)
(* the file before anything is written).                                   *)
(***************************************************************************)
Absent == [kind |-> "absent", doc |-> <<>>]

Garbage == [kind |-> "garbage", doc |-> <<>>]

JsonFile(recs) == [kind |-> "json", doc |-> recs]

\* What os.path.exists, open(.., "r") and json.load can do on the file:
\* "missing" (exists is False), "doc" (the list is read), "decode_error"
\* (json.JSONDecodeError), "os_error" (open or read raises an OSError other
\* than FileNotFoundError, such as PermissionError).
ReadResults(f) ==
    IF f.kind = "absent" THEN {"missing"}
    ELSE IF f.kind = "json" THEN {"doc", "os_error"}
    ELSE {"decode_error", "os_error"}

\* A variant of load_applications that does not return the list it read.
load_applications_no_return(io, f) ==
    IF io = "os_error" THEN [raised |-> TRUE, apps |-> <<>>, logged |-> {}]
    ELSE IF io = "decode_error"
    THEN [raised |-> FALSE, apps |-> <<>>,
          logged |-> {"Error loading applications"}]
    ELSE [raised |-> FALSE, apps |-> <<>>, logged |-> {}]

\* load_applications on a read result: except (FileNotFoundError,
\* json.JSONDecodeError) prints and returns []; any other exception leaves
\* the function.
load_applications(io, f) ==
    IF io = "missing" THEN [raised |-> FALSE, apps |-> <<>>, logged |-> {}]
    ELSE IF io = "doc" THEN [raised |-> FALSE, apps |-> f.doc, logged |-> {}]
    ELSE IF io = "decode_error"
    THEN [raised |-> FALSE, apps |-> <<>>,
          logged |-> {"Error loading applications"}]
    ELSE [raised |-> TRUE, apps |-> <<>>, logged |-> {}]

\* What open(.., "w") can do: "ok" (the file exists and is empty) or
\* "os_error" (the file is untouched).
OpenResults == {"ok", "os_error"}

\* What json.dump and the close can do on the file opened at offset 0:
\* "ok"; "os_error" (part of the text is written); "overlaid" (no error, but
\* another writer's longer text, written since this writer's open, keeps
\* its tail behind this writer's text).
WriteResults(f) ==
    {"ok", "os_error"} \cup (IF f.kind = "json" THEN {"overlaid"} ELSE {})

\* A variant of save_applications that prints and raises again.
save_applications_raising(io) ==
    [raised |-> io = "os_error",
     logged |-> IF io = "os_error" THEN {"Error saving applications"} ELSE {}]

\* save_applications on an open or write result: except Exception prints
\* and returns.
save_applications(io) ==
    [raised |-> FALSE,
     logged |-> IF io = "os_error" THEN {"Error saving applications"} ELSE {}]

\* The file after save_applications wrote the list apps with result io.
Written(io, apps) == IF io = "ok" THEN JsonFile(apps) ELSE Garbage

(***************************************************************************)
(* The handlers.                                                           *)
(***************************************************************************)
\* str(uuid.uuid4()) for the n-th call.
Uuid(n) == <<"uuid-1", "uuid-2", "uuid-3", "uuid-4", "uuid-5", "uuid-6">>[n]

\* new_app of create_application.
NewApp(in, result, id, t) ==
    [name |-> in.name, dateOfBirth |-> in.dateOfBirth,
     address |-> in.address, driverLicense |-> in.driverLicense,
     employmentStatus |-> in.employmentStatus, income |-> in.income,
     carValue |-> in.carValue, depositAmount |-> in.depositAmount,
     loanAmount |-> in.loanAmount,
     id |-> id, status |-> result.status,
     decisionCode |-> result.decisionCode, createdAt |-> t]

\* A variant of apps.append(new_app) that inserts at the front.
Prepended(apps, new_app) == <<new_app>> \o apps

\* apps.append(new_app)
Appended(apps, new_app) == Append(apps, new_app)

\* An entry of the stored list that is not a JSON object (a number, a
\* string, null): json.load gives a value that has no get.
Scalar(v) == [json_scalar |-> v]

HasGet(app_item) == "json_scalar" \notin DOMAIN app_item

\* app_item.get(key, default)
Get(app_item, key, default) ==
    IF key \in DOMAIN app_item THEN app_item[key] ELSE default

\* A variant of Summary that reads the decision code under another key.
SummaryOtherKey(app_item, t) ==
    [id |-> Get(app_item, "id", ""),
     name |-> Get(app_item, "name", ""),
     employmentStatus |-> Get(app_item, "employmentStatus", ""),
     income |-> Get(app_item, "income", 0),
     loanAmount |-> Get(app_item, "loanAmount", 0),
     decisionCode |-> Get(app_item, "decision_code", None),
     status |-> Get(app_item, "status", ""),
     createdAt |-> Get(app_item, "createdAt", t)]

\* One entry of summary_list, built at time t.
Summary(app_item, t) ==
    [id |-> Get(app_item, "id", ""),
     name |-> Get(app_item, "name", ""),
     employmentStatus |-> Get(app_item, "employmentStatus", ""),
     income |-> Get(app_item, "income", 0),
     loanAmount |-> Get(app_item, "loanAmount", 0),
     decisionCode |-> Get(app_item, "decisionCode", None),
     status |-> Get(app_item, "status", ""),
     createdAt |-> Get(app_item, "createdAt", t)]

\* Responses: "created" (201 with the record), "invalid" (422 with the
\* validation errors), "error" (500), "list" (200 with the summaries).
\* log is what the handler printed.
NoResponse ==
    [kind |-> "none", rec |-> <<>>, list |-> <<>>, errors |-> {}, log |-> {}]

Created(rec, log) == [NoResponse EXCEPT !.kind = "created", !.rec = rec, !.log = log]

Invalid(errors) == [NoResponse EXCEPT !.kind = "invalid", !.errors = errors]

ServerError(log) == [NoResponse EXCEPT !.kind = "error", !.log = log]

Listed(list, log) == [NoResponse EXCEPT !.kind = "list", !.list = list, !.log = log]

\* get_applications on a read result of file f at time t: a stored entry
\* without get raises AttributeError, caught by except Exception.
get_applications(io, f, t) ==
    LET ld == load_applications(io, f)
    IN  IF ld.raised \/ \E i \in 1..Len(ld.apps) : ~HasGet(ld.apps[i])
        THEN ServerError(ld.logged \cup {"Error retrieving applications"})
        ELSE Listed([i \in 1..Len(ld.apps) |-> Summary(ld.apps[i], t)],
                    ld.logged)

\* The response of create_application once save_applications is over.
AfterSave(rec, sv, log) ==
    IF sv.raised THEN ServerError(log \cup sv.logged)
    ELSE Created(rec, log \cup sv.logged)

(***************************************************************************)
(* Bounds and inputs of the model.                                         *)
(***************************************************************************)
\* create_application is entered with valid input at most MaxCreates times.
MaxCreates == 2

\* The requests in flight: two worker threads.
Procs == {1, 2}

\* The scenario input of the specification, and variations of it.
Ana ==
    [name |-> "Ana", dateOfBirth |-> [y |-> 1990, m |-> 1, d |-> 1],
     address |-> "1 High St", driverLicense |-> "DL-1",
     employmentStatus |-> "employed", income |-> 5000000,
     carValue |-> 2000000, depositAmount |-> 500000,
     loanAmount |-> 1500000]

ServiceInputs ==
    {Ana,
     [Ana EXCEPT !.employmentStatus = "unemployed"],
     [Ana EXCEPT !.income = 100000],
     [Ana EXCEPT !.loanAmount = 1500002,
                 !.dateOfBirth = [y |-> 2010, m |-> 5, d |-> 5]]}

ServiceToday == [y |-> 2026, m |-> 11, d |-> 1]

\* Records written by something other than create_application: fields are
\* missing.
LegacyDoc == <<[id |-> "legacy-1", name |-> "Bob"],
               [status |-> "approved", income |-> 100]>>

\* A stored list with an entry that is not an object.
MalformedDoc == <<[id |-> "legacy-1", name |-> "Bob"], Scalar(42)>>

InitialFiles == {Absent, JsonFile(LegacyDoc), JsonFile(MalformedDoc)}

(***************************************************************************)
(* State.                                                                  *)
(*   file      applications.json                                           *)
(*   pc        where each request is: "idle", "loaded" (create_application *)
(*             after load_applications), "opened" (save_applications after *)
(*             open, before json.dump)                                     *)
(*   newApp, apps, logs   new_app, apps and the lines printed so far of    *)
(*             the create_application call in progress                     *)
(*   resp      the last response each requester received                   *)
(*   nextId    the number of the next uuid4 call                           *)
(*   now       the clock, one tick later at each create_application        *)
(*   today     date.today()                                                *)
(*   memo      the validation errors and the decision of each service      *)
(*             input on the date today, computed once: the validators and  *)
(*             process_application are functions of their input            *)
(*   arg, ret  the input and the result of a function applied on its own   *)
(*   last, before   history: the requester answered last, and the          *)
(*             collection stored when its create_application began         *)
(***************************************************************************)
VARIABLES file, pc, newApp, apps, logs, resp, nextId, now, today, memo,
          arg, ret, last, before

vars == <<file, pc, newApp, apps, logs, resp, nextId, now, today, memo,
          arg, ret, last, before>>

\* What stays as it is while requests are served.
fixed == <<today, memo, arg, ret>>

\* The stored collection: what the file holds as a list, the empty
\* collection when it holds none.
Persisted(f) == IF f.kind = "json" THEN f.doc ELSE <<>>

ServiceInit ==
    /\ pc = [p \in Procs |-> "idle"]
    /\ newApp = [p \in Procs |-> <<>>]
    /\ apps = [p \in Procs |-> <<>>]
    /\ logs = [p \in Procs |-> {}]
    /\ resp = [p \in Procs |-> NoResponse]
    /\ before = [p \in Procs |-> <<>>]
    /\ nextId = 1
    /\ now = 0
    /\ last = 0

Init ==
    /\ ServiceInit
    /\ file \in InitialFiles
    /\ today = ServiceToday
    /\ memo = [in \in ServiceInputs |->
                 [errors |-> Validate(in, ServiceToday),
                  result |-> process_application(in)]]
    /\ arg = <<>>
    /\ ret = [op |-> "none", val |-> <<>>]

\* POST /create/applications: validation, process_application, new_app and
\* load_applications.
CreateBegin(p) ==
    /\ pc[p] = "idle"
    /\ \E in \in ServiceInputs, io \in ReadResults(file) :
         IF memo[in].errors # {}
         THEN /\ resp' = [resp EXCEPT ![p] = Invalid(memo[in].errors)]
              /\ last' = p
              /\ UNCHANGED <<file, pc, newApp, apps, logs, nextId, now,
                             before>>
         ELSE /\ nextId <= MaxCreates
              /\ nextId' = nextId + 1
              /\ now' = now + 1
              /\ LET ld == load_applications(io, file)
                 IN  IF ld.raised
                     THEN /\ resp' = [resp EXCEPT ![p] = ServerError(ld.logged)]
                          /\ last' = p
                          /\ UNCHANGED <<file, pc, newApp, apps, logs, before>>
                     ELSE /\ pc' = [pc EXCEPT ![p] = "loaded"]
                          /\ newApp' = [newApp EXCEPT ![p] =
                                 NewApp(in, memo[in].result, Uuid(nextId), now)]
                          /\ apps' = [apps EXCEPT ![p] = ld.apps]
                          /\ logs' = [logs EXCEPT ![p] = ld.logged]
                          /\ before' = [before EXCEPT ![p] = Persisted(file)]
                          /\ UNCHANGED <<file, resp, last>>
    /\ UNCHANGED fixed

\* The handler returns (or its except clause answers 500) after
\* save_applications.
Return(p, sv) ==
    /\ resp' = [resp EXCEPT ![p] = AfterSave(newApp[p], sv, logs[p])]
    /\ last' = p
    /\ pc' = [pc EXCEPT ![p] = "idle"]
    /\ newApp' = [newApp EXCEPT ![p] = <<>>]
    /\ apps' = [apps EXCEPT ![p] = <<>>]
    /\ logs' = [logs EXCEPT ![p] = {}]

\* apps.append(new_app) and the open(.., "w") of save_applications.
SaveOpen(p) ==
    /\ pc[p] = "loaded"
    /\ \E io \in OpenResults :
         IF io = "ok"
         THEN /\ file' = Garbage
              /\ pc' = [pc EXCEPT ![p] = "opened"]
              /\ apps' = [apps EXCEPT ![p] = Appended(apps[p], newApp[p])]
              /\ UNCHANGED <<newApp, logs, resp, last>>
         ELSE /\ Return(p, save_applications(io))
              /\ UNCHANGED file
    /\ UNCHANGED <<nextId, now, fixed, before>>

\* The json.dump of save_applications, and the return of the handler.
SaveWrite(p) ==
    /\ pc[p] = "opened"
    /\ \E io \in WriteResults(file) :
         /\ file' = Written(io, apps[p])
         /\ Return(p, save_applications(io))
    /\ UNCHANGED <<nextId, now, fixed, before>>

\* GET /applicationList
List(p) ==
    /\ pc[p] = "idle"
    /\ \E io \in ReadResults(file) :
         resp' = [resp EXCEPT ![p] = get_applications(io, file, now)]
    /\ last' = p
    /\ UNCHANGED <<file, pc, newApp, apps, logs, nextId, now, fixed, before>>

Step(p) == CreateBegin(p) \/ SaveOpen(p) \/ SaveWrite(p) \/ List(p)

\* Requests are served concurrently.
Next == \E p \in Procs : Step(p)

Spec == Init /\ [][Next]_vars

\* Requests are served one at a time.
Alone(p) == \A q \in Procs \ {p} : pc[q] = "idle"

SeqNext == \E p \in Procs : Alone(p) /\ Step(p)

SeqSpec == Init /\ [][SeqNext]_vars

(***************************************************************************)
(* process_application applied on its own to one input.                    *)
(***************************************************************************)
Employments == {"employed", "unemployed", "self-employed"}

Incomes == {-100000, -1, 0, 1, 18, 22, 70, 100000, 1000000, 5000000}

Loans == {-1, 0, 1, 27, 33, 105, 150000, 150001, 1500000, 1500001}

\* Inputs the validators accept, and one they do not.
DecideInputs ==
    {[Ana EXCEPT !.employmentStatus = e, !.income = i, !.loanAmount = l,
                 !.carValue = (IF l > 0 THEN l ELSE 0) + 500000]
        : e \in Employments, i \in Incomes, l \in Loans}
    \cup {[Ana EXCEPT !.employmentStatus = "unemployed",
                      !.loanAmount = 1500002]}

NoResult == [op |-> "none", val |-> <<>>]

PureInit ==
    /\ ServiceInit
    /\ file = Absent
    /\ memo = <<>>
    /\ ret = NoResult

DecideInit ==
    /\ PureInit
    /\ today = ServiceToday
    /\ arg \in DecideInputs

Decide ==
    /\ ret.op = "none"
    /\ ret' = [op |-> "decide", val |-> process_application(arg)]
    /\ UNCHANGED <<file, pc, newApp, apps, logs, resp, nextId, now, today,
                   memo, arg, last, before>>

DecideSpec == DecideInit /\ [][Decide]_vars

(***************************************************************************)
(* The validators applied on their own to one input on one date.           *)
(***************************************************************************)
Cars == {0, 1, 500000, 2000000, 2000010}

Deposits == {0, 1, 500000, 500005, 2500000}

Deltas == {-2, -1, 0, 1, 2}

\* car - dep when positive, else 0, in hundredths.
ExpectedCents(car, dep) == IF car > dep THEN car - dep ELSE 0

LoanInputs ==
    {[Ana EXCEPT !.carValue = c, !.depositAmount = d,
                 !.loanAmount = ExpectedCents(c, d) + x]
        : c \in Cars, d \in Deposits, x \in Deltas}

DobInputs ==
    {[Ana EXCEPT !.dateOfBirth = [y |-> y, m |-> m, d |-> d]]
        : y \in 2006..2009, m \in {1, 2, 3, 10, 11, 12, 13},
          d \in {1, 2, 28, 29, 30, 31, 32}}

ValidateDates ==
    {[y |-> 2026, m |-> 11, d |-> 1], [y |-> 2024, m |-> 2, d |-> 29],
     [y |-> 2026, m |-> 2, d |-> 28], [y |-> 2026, m |-> 3, d |-> 1],
     [y |-> 2026, m |-> 12, d |-> 31], [y |-> 2026, m |-> 1, d |-> 1]}

ValidateCases ==
    {[in |-> in, today |-> ServiceToday] : in \in LoanInputs}
    \cup {[in |-> in, today |-> t] : in \in DobInputs, t \in ValidateDates}

ValidateInit ==
    /\ PureInit
    /\ \E c \in ValidateCases : arg = c.in /\ today = c.today

ValidateStep ==
    /\ ret.op = "none"
    /\ ret' = [op |-> "validate", val |-> Validate(arg, today)]
    /\ UNCHANGED <<file, pc, newApp, apps, logs, resp, nextId, now, today,
                   memo, arg, last, before>>

ValidateSpec == ValidateInit /\ [][ValidateStep]_vars

(***************************************************************************)
(* Properties of the decision (DecideSpec).                                *)
(***************************************************************************)
Decided == ret.op = "decide"

Rejected(code) == ret.val.status = "rejected" /\ ret.val.decisionCode = code

Approved == ret.val.status = "approved" /\ ret.val.decisionCode = None

\* C2: an input whose employmentStatus is "unemployed" is rejected with
\* D_017, whatever its income, its loanAmount and its other fields.
C2_UnemployedRejected ==
    (Decided /\ arg.employmentStatus = "unemployed") => Rejected("D_017")

\* An unemployed applicant with no income and a loan, whom the LVR rule
\* would reject too, is rejected with D_017.
C2_Witness ==
    /\ Decided
    /\ arg.employmentStatus = "unemployed"
    /\ arg.income = 0
    /\ arg.loanAmount > 0
    /\ Rejected("D_017")

\* The input of a decision the claim C3 is about: accepted by the
\* validators, and not unemployed.
C3_Case ==
    /\ Decided
    /\ Validate(arg, today) = {}
    /\ arg.employmentStatus # "unemployed"

\* (loanAmount / income) * 100 in floats.
LvrQuotient(app) ==
    FMul(FDiv(FromCents(app.loanAmount), FromCents(app.income)),
         FromCents(100 * 100))

LvrOver(lvr) == FGt(lvr, FromCents(LvrLimit * 100))

Validated == ret.op = "validate"

LoanAccepted == "LoanAmountMismatch" \notin ret.val

\* |loanAmount - max(0, carValue - depositAmount)| in hundredths, on the
\* decimal amounts.
LoanGapCents ==
    LET e == ExpectedCents(arg.carValue, arg.depositAmount)
    IN  IF arg.loanAmount >= e THEN arg.loanAmount - e ELSE e - arg.loanAmount

\* C5: the loanAmount is accepted exactly when it is within 0.01 of
\* max(0, carValue - depositAmount); in particular carValue -
\* depositAmount + 0.01 passes and + 0.02 fails with LoanAmountMismatch.
C5_AsClaimed == Validated => (LoanAccepted <=> LoanGapCents <= ToleranceCents)

\* today's (month, day) precedes the birth (month, day).
Precedes(t, b) == t.m * 100 + t.d < b.m * 100 + b.d

\* The age the claim C6 describes.
ClaimedAge(b, t) == (t.y - b.y) - (IF Precedes(t, b) THEN 1 ELSE 0)

\* The date MinAge years before today, and the day after a date.
YearsBefore(t) == [y |-> t.y - MinAge, m |-> t.m, d |-> t.d]

NextDay(c) ==
    IF c.d < DaysInMonth(c.y, c.m) THEN [c EXCEPT !.d = c.d + 1]
    ELSE IF c.m < 12 THEN [c EXCEPT !.m = c.m + 1, !.d = 1]
    ELSE [y |-> c.y + 1, m |-> 1, d |-> 1]

\* C6: a well-formed dateOfBirth is accepted exactly when the age on the
\* current date (the year difference, minus one if the current (month, day)
\* precedes the birth (month, day)) is at least 18; a birthdate exactly 18
\* years before today is accepted, and one a day later is rejected with
\* Underage.
C6_AgeRule ==
    (Validated /\ ParsesAsDate(arg.dateOfBirth)) =>
        /\ "InvalidDate" \notin ret.val
        /\ "Underage" \notin ret.val
           <=> ClaimedAge(arg.dateOfBirth, today) >= MinAge
        /\ arg.dateOfBirth = YearsBefore(today) => "Underage" \notin ret.val
        /\ (ParsesAsDate(YearsBefore(today))
            /\ arg.dateOfBirth = NextDay(YearsBefore(today)))
           => "Underage" \in ret.val

\* An applicant born 18 years ago to the day has been accepted.
C6_Witness ==
    /\ Validated
    /\ ParsesAsDate(arg.dateOfBirth)
    /\ arg.dateOfBirth = YearsBefore(today)
    /\ ret.val = {}

(***************************************************************************)
(* Properties of the service (Spec: concurrent requests; SeqSpec: one      *)
(* request at a time).                                                     *)
(***************************************************************************)
AllIdle == \A p \in Procs : pc[p] = "idle"

SaveFailed(p) == "Error saving applications" \in resp[p].log

\* Requester p has just been answered 201 and no other request has begun.
JustCreated(p) == last = p /\ resp[p].kind = "created" /\ AllIdle

\* The summary s shows the fields of the record r the claim C1 names.
Matches(s, r) ==
    /\ s.id = r.id
    /\ s.name = r.name
    /\ s.employmentStatus = r.employmentStatus
    /\ s.income = r.income
    /\ s.loanAmount = r.loanAmount
    /\ s.decisionCode = r.decisionCode
    /\ s.status = r.status

Includes(list, r) == \E i \in 1..Len(list) : Matches(list[i], r)

C4_AsClaimed ==
    \A p \in Procs :
        JustCreated(p) =>
            Persisted(file) = Append(before[p], resp[p].rec)

\* C4 as the code has it (SeqSpec): the collection after a creation that printed no
\* storage write error is the collection before it with the one new record
\* appended at the end; after a creation whose write failed it is the
\* collection before it, or empty.
C4_AppendOnly ==
    \A p \in Procs :
        JustCreated(p) =>
            IF SaveFailed(p)
            THEN Persisted(file) \in {before[p], <<>>}
            ELSE Persisted(file) = Append(before[p], resp[p].rec)

\* A second record has been created after a first one: the collection
\* holds the legacy records, the first and the second.
C4_Witness ==
    \E p \in Procs :
        /\ JustCreated(p)
        /\ ~SaveFailed(p)
        /\ Len(before[p]) > Len(LegacyDoc)
        /\ Persisted(file) = Append(before[p], resp[p].rec)

\* C7 (Spec): loadAll never raises; it returns the stored collection, and
\* the empty sequence when there is no file or the file cannot be read or
\* decoded.
C7_AsClaimed ==
    \A io \in ReadResults(file) :
        LET ld == load_applications(io, file)
        IN  ~ld.raised /\ ld.apps = Persisted(file)

\* The fields of a summary and the default of each at time t.
SummaryFields ==
    {"id", "name", "employmentStatus", "income", "loanAmount",
     "decisionCode", "status", "createdAt"}

DefaultOf(key, t) ==
    IF key \in {"income", "loanAmount"} THEN 0
    ELSE IF key = "decisionCode" THEN None
    ELSE IF key = "createdAt" THEN t
    ELSE ""

\* C8 (Spec): whatever collection is stored, a listing that reads it
\* returns one summary per stored record, in order, each field that of the
\* record, or its default where the record has none.
C8_AsClaimed ==
    \A io \in ReadResults(file) \ {"os_error"} :
        LET r == get_applications(io, file, now)
            c == Persisted(file)
        IN  /\ r.kind = "list"
            /\ Len(r.list) = Len(c)
            /\ \A i \in 1..Len(c) :
                 /\ DOMAIN r.list[i] = SummaryFields
                 /\ \A key \in SummaryFields :
                      r.list[i][key] = IF key \in DOMAIN c[i] THEN c[i][key]
                                       ELSE DefaultOf(key, now)

Stored(r) ==
    \E i \in 1..Len(Persisted(file)) :
        Get(Persisted(file)[i], "id", "") = r.id

\* C9 (Spec): a storage write failure during createApplication is printed
\* and not raised: the requester is answered with the record (201, not
\* 500), and the record is not in the stored collection.
C9_WriteFailureSwallowed ==
    \A p \in Procs :
        SaveFailed(p) =>
            /\ resp[p].kind = "created"
            /\ resp[p].rec.id \in {Uuid(n) : n \in 1..MaxCreates}
            /\ ~Stored(resp[p].rec)

\* A creation has failed to write over a stored collection, which is left
\* as it was.
C9_Witness ==
    \E p \in Procs :
        /\ SaveFailed(p)
        /\ resp[p].kind = "created"
        /\ last = p
        /\ Persisted(file) = before[p]
        /\ Len(before[p]) > 0

\* C10 (Spec): save_applications writes the list the request loaded, with
\* its record appended, whatever has been stored since the load: right
\* after a write that printed no error, the file holding a list, the
\* collection is the one loaded with the record appended.
C10_LastWriterWins ==
    \A p \in Procs :
        (last = p /\ pc[p] = "idle" /\ resp[p].kind = "created"
         /\ ~SaveFailed(p) /\ file.kind = "json")
        => Persisted(file) = Append(before[p], resp[p].rec)

\* The lost update: two creations have loaded the same collection, both
\* have been answered with their record and no write error, and the
\* stored collection holds the record of only one of them.
C10_Witness ==
    \E p, q \in Procs :
        /\ p # q
        /\ AllIdle
        /\ resp[p].kind = "created" /\ ~SaveFailed(p)
        /\ resp[q].kind = "created" /\ ~SaveFailed(q)
        /\ resp[p].rec.id # resp[q].rec.id
        /\ before[p] = before[q]
        /\ file.kind = "json"
        /\ Stored(resp[q].rec)
        /\ ~Stored(resp[p].rec)

====
